---- MODULE Spec2Model ----
(***************************************************************************)
(* Model of the two simulation engines of the portfolio site:              *)
(*   - the drag / throw / return choreographer of the 3D showcase          *)
(*     (src/components/PhysicsSandbox/SandboxCanvas.tsx, useDraggable and  *)
(*     drivePos, driven by the five item components and by index.tsx);     *)
(*   - the force-directed graph layout (src/components/GraphDemo.tsx).     *)
(*                                                                         *)
(* Numbers.  The code computes in IEEE doubles; the model computes in      *)
(* fixed point.  World lengths are in 1/1000 world unit, velocities in     *)
(* 1/1000 unit per second, times in milliseconds, angles in milliradians.  *)
(* Every product is rounded toward zero (TDiv), so a damped speed really   *)
(* shrinks and an ease step never overshoots because of rounding.          *)
(***************************************************************************)
EXTENDS Integers, Sequences, FiniteSets, TLC

\* ------------------------------------------------------------------ numbers

Abs(a) == IF a < 0 THEN -a ELSE a

Max(a, b) == IF a > b THEN a ELSE b

Min(a, b) == IF a < b THEN a ELSE b

\* a / b rounded toward zero (b > 0)
TDiv(a, b) == IF a >= 0 THEN a \div b ELSE -((-a) \div b)

RECURSIVE SqrtIter(_, _)
SqrtIter(n, r) ==
    LET s == (r + n \div r) \div 2
    IN  IF s >= r THEN r ELSE SqrtIter(n, s)

\* floor of the square root of n >= 0 (Newton iteration from a power of ten
\* above the root)
ISqrt(n) ==
    IF n < 2 THEN n
    ELSE SqrtIter(n, IF n < 10000 THEN 100
                     ELSE IF n < 1000000 THEN 1000
                     ELSE IF n < 100000000 THEN 10000
                     ELSE 46341)

\* THREE.MathUtils.clamp: Math.max(min, Math.min(max, value))
Clamp(v, lo, hi) == Max(lo, Min(hi, v))

\* ------------------------------------------------------------------ vectors

Vec(a, b) == [x |-> a, y |-> b]

Zero == Vec(0, 0)

VAdd(a, b) == Vec(a.x + b.x, a.y + b.y)

VSub(a, b) == Vec(a.x - b.x, a.y - b.y)

LenSq(v) == v.x * v.x + v.y * v.y

\* Vector3.length(); components above 30000 are scaled first so that the
\* squares stay inside 32 bits
Length(v) ==
    IF Abs(v.x) <= 30000 /\ Abs(v.y) <= 30000
    THEN ISqrt(LenSq(v))
    ELSE 64 * ISqrt(LenSq(Vec(TDiv(v.x, 64), TDiv(v.y, 64))))

\* Vector3.distanceTo(b) < limit, compared on the squares
Nearer(a, b, limit) == LenSq(VSub(a, b)) < limit * limit

\* ------------------------------------------------------------- trigonometry

PiMilli == 3142

TwoPiMilli == 6283

\* sin(a) * 1000 for 0 <= a <= pi (a in milliradians), Bhaskara's rational
\* approximation 16 a (pi - a) / (5 pi^2 - 4 a (pi - a))
HalfSine(a) ==
    LET p == a * (PiMilli - a)
    IN  (16000 * (p \div 100)) \div ((5 * PiMilli * PiMilli - 4 * p) \div 100)

\* Math.sin: sin(a) * 1000, a in milliradians, any a >= 0
Sin(a) ==
    LET r == a % TwoPiMilli
    IN  IF r < PiMilli THEN HalfSine(r) ELSE -HalfSine(Min(r - PiMilli, PiMilli))

\* Math.cos
Cos(a) == Sin(a + PiMilli \div 2)

\* ============================================================= the showcase
\* SandboxCanvas.tsx: five items, each with its own useDraggable instance.

NumItems == 5

Items == 1 .. NumItems

\* the item whose scripted path is the elliptical orbit (IataAircraft)
Iata == 2

\* thresholds and rates of useDraggable / drivePos, in model units
TapTravel == 200

ThrowSpeed == 900

StopSpeed == 100

MaxSpeed == 16000

MinSampleMs == 8

ReturnNear == 70

\* world-space inset of the viewport bounds
Inset == 850

\* camera.position.z
CamZ == 14

\* tan(fov / 2) * 100000 for fov = 45 degrees
TanHalfFov == 41421

\* ------------------------------------------------------------------- bounds

MaxFrames == 2

MaxGrabs == 2

MaxMoves == 1

MaxResets == 1

\* frame durations (ms): a nominal frame and a frame after a stall
NominalDelta == 1000 \div 50

Deltas == {NominalDelta, 500}

\* wall time (ms) that passes before a pointer-move is delivered
Advances == {4, 16}

\* canvas sizes (CSS pixels)
Sizes == {[w |-> 1600, h |-> 900]}

\* where inside its hit box an item is pressed, relative to its centre
HitOffsets == {Vec(300, -200)}

\* where the pointer travels, relative to the point where it went down
RelMoves == {Vec(150, 0), Vec(250, 0), Vec(0, 6000)}

\* the scripted angles of all items repeat with this period (ms)
ClockPeriod == 100 * TwoPiMilli

\* -------------------------------------------------------------------- state

VARIABLES
    size,        \* useThree().size of the canvas
    clock,       \* clock.elapsedTime of the last frame, ms (mod ClockPeriod)
    returnKey,   \* PhysicsSandbox state returnKey
    drag,        \* per item: the refs of its useDraggable instance
    gpos,        \* per item: gRef.current.position (x, y)
    listeners,   \* items whose onMove/onUp pair is registered on the canvas,
                 \* one entry per registered pair, in registration order
    selected,    \* PhysicsSandbox state selected (0: none)
    ptrDown,     \* world point of the latest pointer-down
    ptr,         \* world point of the latest pointer event
    frames,      \* frames drawn so far
    grabs,       \* pointer-downs so far
    moves,       \* pointer-moves so far
    last,        \* the operation that produced this state
    delta,       \* duration of the latest frame, ms
    resetSeen,   \* items whose checkReturn saw a new returnKey in the latest frame
    was,         \* per item: its mode when the latest frame began
    checked,     \* per item: its refs as checkReturn left them in the latest frame
    taps,        \* per item: onTap calls made by the latest pointer-up
    mark,        \* the refs and group positions as they were at the marked frame
    held,        \* items that have been Returning in every frame since the mark
    turned       \* a frame has run since the mark

svars == <<size, clock, returnKey, drag, gpos, listeners, selected, ptrDown, ptr,
           frames, grabs, moves, last, delta, resetSeen, was, checked,
                   taps, mark, held, turned>>

\* state of the knowledge graph (GraphDemo.tsx)
VARIABLES
    phys,        \* physRef.current: per node x, y, vx, vy (1/100 px) and pinned
    hovered,     \* hoveredRef.current (0: null)
    mouseRef,    \* mouseRef.current, local px
    dragIdx,     \* dragRef.current.idx (0: dragRef.current is null)
    sizeRef,     \* sizeRef.current, px
    rect,        \* left/top of the svg's bounding client rect, px
    cursor,      \* where the mouse pointer is, client px
    nodeAt,      \* per node: the translate() written to its <g>, local px
    nodeOpacity, \* per node: style.opacity written to its <g>
    edgeOpacity, \* per edge: style.opacity written to its <line>
    ticks,       \* ticks run so far
    inputs,      \* mouse and resize events so far
    glast,       \* the kind of operation that produced this state
    mounted,     \* GraphDemo is mounted (its effects have not been cleaned up)
    raf,         \* the effect's variable raf: the id of the latest frame request
    pending      \* ids of the frame requests the browser still holds

gvars == <<phys, hovered, mouseRef, dragIdx, sizeRef, rect, cursor, nodeAt,
           nodeOpacity, edgeOpacity, ticks, inputs, glast, mounted, raf, pending>>

\* the frame scheduling of GraphDemo
sched == <<mounted, raf, pending>>

\* state of the rigid-body items (PhysicsObject.tsx)
VARIABLES
    body,        \* per body: the refs of its PhysicsObject and its rigid body
    canvasPairs, \* bodies whose onMove/onUp pair is registered on the canvas,
                 \* one entry per registered pair, in registration order
    bevents,     \* pointer events and frames so far
    blast        \* the kind of operation that produced this state

ovars == <<body, canvasPairs, bevents, blast>>

vars == <<svars, gvars, ovars>>

\* no PhysicsObject is mounted
BodiesUnmounted ==
    /\ body = <<>>
    /\ canvasPairs = <<>>
    /\ bevents = 0
    /\ blast = "unmounted"

\* the graph before GraphDemo is mounted
GraphUnmounted ==
    /\ phys = <<>>
    /\ hovered = 0
    /\ mouseRef = Zero
    /\ dragIdx = 0
    /\ sizeRef = [w |-> 1280, h |-> 800]
    /\ rect = Zero
    /\ cursor = Zero
    /\ nodeAt = <<>>
    /\ nodeOpacity = <<>>
    /\ edgeOpacity = <<>>
    /\ ticks = 0
    /\ inputs = 0
    /\ glast = "unmounted"
    /\ mounted = FALSE
    /\ raf = 0
    /\ pending = {}

\* useDraggable.bounds
Bounds(sz) ==
    LET halfH == (TanHalfFov * CamZ) \div 100 - Inset
        halfW == (halfH * sz.w) \div sz.h - Inset
    IN  [minX |-> -halfW, maxX |-> halfW, minY |-> -halfH, maxY |-> halfH]

\* angle (mrad) at elapsed time t (ms) for speed w (1/100 rad/s), phase ph (mrad)
Angle(t, w, ph) == ((t * w) \div 100 + ph) % TwoPiMilli

\* the scripted target (cx, cy) of item i at elapsed time t, as each item's
\* useFrame callback computes it
Target(i, t) ==
    CASE i = 1 -> Vec(0, 300 + (Sin(Angle(t, 72, 0)) * 240) \div 1000)
      [] i = 2 -> Vec((3800 * Cos(Angle(t, 52, 0))) \div 1000,
                      300 + (2000 * Sin(Angle(t, 52, 0))) \div 1000)
      [] i = 3 -> Vec(4100 + (Sin(Angle(t, 44, 900)) * 110) \div 1000,
                      2700 + (Sin(Angle(t, 81, 1200)) * 200) \div 1000)
      [] i = 4 -> Vec((Sin(Angle(t, 37, 500)) * 180) \div 1000,
                      -3000 + (Sin(Angle(t, 64, 2100)) * 180) \div 1000)
      [] i = 5 -> Vec(-4200, 2600 + (Sin(Angle(t, 66, 500)) * 180) \div 1000)

\* the position prop of each item's <group>
MountPos(i) ==
    CASE i = 1 -> Vec(0, 300)
      [] i = 2 -> Vec(3800, 300)
      [] i = 3 -> Vec(4100, 2700)
      [] i = 4 -> Vec(0, -3000)
      [] i = 5 -> Vec(-4200, 2600)

NoMark == [at |-> -1]

\* the refs of a freshly mounted useDraggable
NewDrag ==
    [mode |-> "choreo", pos |-> Zero, vel |-> Zero, grabOffset |-> Zero,
     prevWorld |-> Zero, since |-> 0, prevRKey |-> 0, grabStart |-> Zero]

\* ------------------------------------------------- useDraggable, per item

\* a pointer-down that takes the item by its centre
OnDownSnaps(d, g, w) ==
    [d EXCEPT !.mode = "grabbed",
              !.vel = Zero,
              !.grabOffset = Zero,
              !.grabStart = w,
              !.prevWorld = w,
              !.since = 0]

\* the pointerDown handler returned by makeHandlers, pressed at world point w
\* while the group is drawn at g
OnDown(d, g, w) ==
    [d EXCEPT !.mode = "grabbed",
              !.vel = Zero,
              !.grabOffset = VSub(g, w),
              !.grabStart = w,
              !.prevWorld = w,
              !.since = 0]

\* a velocity estimate left as measured
CapSpeedOff(v) == v

\* vel.setLength(16) when vel.length() > 16; components above 30000 are
\* scaled first so that the products stay inside 32 bits, and the length is
\* rounded up so that the result is never longer than 16
CapSpeed(v) ==
    LET big == Abs(v.x) > 30000 \/ Abs(v.y) > 30000
        s   == IF big THEN Vec(TDiv(v.x, 64), TDiv(v.y, 64)) ELSE v
        fl  == ISqrt(LenSq(s))
        len == IF fl * fl = LenSq(s) THEN fl ELSE fl + 1
    IN  IF big \/ LenSq(v) > MaxSpeed * MaxSpeed
        THEN Vec(TDiv(s.x * MaxSpeed, len), TDiv(s.y * MaxSpeed, len))
        ELSE v

\* the velocity estimate left without its cap
EstimateUncapped(ww, prev, dt) ==
    Vec(TDiv((ww.x - prev.x) * 1000, dt), TDiv((ww.y - prev.y) * 1000, dt))

\* the velocity estimate of onMove: (ww - prevWorld) / dt, capped
Estimate(ww, prev, dt) ==
    CapSpeed(Vec(TDiv((ww.x - prev.x) * 1000, dt), TDiv((ww.y - prev.y) * 1000, dt)))

\* pos = ww + grabOffset, clamped to the bounds
Follow(ww, off, b) ==
    Vec(Clamp(ww.x + off.x, b.minX, b.maxX), Clamp(ww.y + off.y, b.minY, b.maxY))

\* an onMove that follows the pointer whatever the mode
OnMoveUnguarded(d, ww, dt, b) ==
    LET sampled == dt > MinSampleMs
    IN  [d EXCEPT !.vel = IF sampled THEN Estimate(ww, d.prevWorld, dt) ELSE @,
                  !.prevWorld = IF sampled THEN ww ELSE @,
                  !.since = IF sampled THEN 0 ELSE dt,
                  !.pos = Follow(ww, d.grabOffset, b)]

\* one onMove listener: pointer at world point ww, dt ms after the last sample
OnMove(d, ww, dt, b) ==
    IF d.mode # "grabbed" THEN d
    ELSE LET sampled == dt > MinSampleMs
         IN  [d EXCEPT !.vel = IF sampled THEN Estimate(ww, d.prevWorld, dt) ELSE @,
                       !.prevWorld = IF sampled THEN ww ELSE @,
                       !.since = IF sampled THEN 0 ELSE dt,
                       !.pos = Follow(ww, d.grabOffset, b)]

\* onUp with the speed test ahead of the travel test
UpBranchSpeedFirst(d, end) ==
    IF LenSq(d.vel) > ThrowSpeed * ThrowSpeed THEN "throw"
    ELSE IF Nearer(end, d.grabStart, TapTravel) THEN "tap"
    ELSE "return"

\* the branch onUp takes for a release at world point end
UpBranch(d, end) ==
    IF Nearer(end, d.grabStart, TapTravel) THEN "tap"
    ELSE IF LenSq(d.vel) > ThrowSpeed * ThrowSpeed THEN "throw"
    ELSE "return"

\* onUp throwing every drag, whatever its speed
OnUpAlwaysThrows(d, end) ==
    [d EXCEPT !.mode = IF UpBranch(d, end) = "tap" THEN "returning" ELSE "thrown"]

\* one onUp listener: the mode it leaves
OnUp(d, end) ==
    [d EXCEPT !.mode = IF UpBranch(d, end) = "throw" THEN "thrown" ELSE "returning"]

\* checkReturn keeping the velocity
CheckReturnKeepsVel(d, rk) ==
    IF rk # d.prevRKey
    THEN [d EXCEPT !.prevRKey = rk, !.mode = "returning"]
    ELSE d

\* checkReturn(rk)
CheckReturn(d, rk) ==
    IF rk # d.prevRKey
    THEN [d EXCEPT !.prevRKey = rk, !.mode = "returning", !.vel = Zero]
    ELSE d

\* the damping factor without its floor at zero
DampingUnfloored(dl) == 1000 - (22 * dl) \div 10

\* Math.max(0, 1 - delta * 2.2), times 1000
Damping(dl) == Max(0, 1000 - (22 * dl) \div 10)

\* vel.multiplyScalar(k / 1000)
Scale(v, k) == Vec(TDiv(v.x * k, 1000), TDiv(v.y * k, 1000))

\* pos.addScaledVector(vel, delta)
Advance(p, v, dl) == Vec(p.x + TDiv(v.x * dl, 1000), p.y + TDiv(v.y * dl, 1000))

\* one velocity component after the bounce test of stepThrown
Bounce(v, p, lo, hi) == IF p < lo \/ p > hi THEN TDiv(v * (-55), 100) ELSE v

\* the bounce test without the clamp
SettleUnclamped(p, lo, hi) == p

\* one position component after the bounce test of stepThrown
Settle(p, lo, hi) == IF p < lo \/ p > hi THEN Clamp(p, lo, hi) ELSE p

\* a throw that is never taken to have stopped
StoppedNever(v) == FALSE

\* vel.length() < 0.1
Stopped(v) == LenSq(v) < StopSpeed * StopSpeed

\* stepThrown(delta)
StepThrown(d, dl, b) ==
    IF d.mode # "thrown" THEN d
    ELSE LET v1 == Scale(d.vel, Damping(dl))
             p1 == Advance(d.pos, v1, dl)
             v2 == Vec(Bounce(v1.x, p1.x, b.minX, b.maxX),
                       Bounce(v1.y, p1.y, b.minY, b.maxY))
             p2 == Vec(Settle(p1.x, b.minX, b.maxX), Settle(p1.y, b.minY, b.maxY))
         IN  [d EXCEPT !.vel = v2,
                       !.pos = p2,
                       !.mode = IF Stopped(v2) THEN "returning" ELSE @]

\* Vector3.lerp(target, delta * 4.5)
Lerp(p, t, dl) ==
    Vec(p.x + TDiv((t.x - p.x) * (45 * dl), 10000),
        p.y + TDiv((t.y - p.y) * (45 * dl), 10000))

\* the choreo case moving the group only
ChoreoKeepsPos(d, t) == [d |-> d, g |-> t]

\* drivePos, case "choreo": target t
Choreo(d, t) == [d |-> [d EXCEPT !.pos = t], g |-> t]

\* the returning case handing over wherever the item is
ReturningHandsOverAnywhere(d, t, dl) ==
    LET p == Lerp(d.pos, t, dl)
    IN  [d |-> [d EXCEPT !.pos = t, !.mode = "choreo"], g |-> p]

\* drivePos, case "returning": target t, frame duration dl
Returning(d, t, dl) ==
    LET p == Lerp(d.pos, t, dl)
    IN  IF Nearer(p, t, ReturnNear)
        THEN [d |-> [d EXCEPT !.pos = t, !.mode = "choreo"], g |-> p]
        ELSE [d |-> [d EXCEPT !.pos = p], g |-> p]

\* drivePos: the refs it leaves (.d) and the group position it writes (.g)
DrivePos(d, t, dl, b) ==
    CASE d.mode = "choreo" -> Choreo(d, t)
      [] d.mode = "grabbed" ->
           [d |-> d, g |-> d.pos]
      [] d.mode = "thrown" ->
           LET e == StepThrown(d, dl, b) IN [d |-> e, g |-> e.pos]
      [] d.mode = "returning" -> Returning(d, t, dl)

\* an item's useFrame callback at elapsed time t, frame duration dl
FrameItem(i, d, rk, t, dl, b) == DrivePos(CheckReturn(d, rk), Target(i, t), dl, b)

\* the listeners registered for item i
Pairs(ls, i) == Cardinality({k \in 1 .. Len(ls) : ls[k] = i})

\* the last item of ls whose onUp takes the tap branch (0: none)
RECURSIVE LastTap(_, _, _)
LastTap(ls, ds, end) ==
    IF ls = <<>> THEN 0
    ELSE LET i == ls[Len(ls)]
         IN  IF UpBranch(ds[i], end) = "tap" THEN i
             ELSE LastTap(SubSeq(ls, 1, Len(ls) - 1), ds, end)

\* ---------------------------------------------------------------- operations

ShowcaseMount ==
    /\ size \in Sizes
    /\ clock = 0
    /\ drag = [i \in Items |-> NewDrag]
    /\ gpos = [i \in Items |-> MountPos(i)]
    /\ returnKey = 0
    /\ listeners = <<>>
    /\ selected = 0
    /\ ptrDown = Zero
    /\ ptr = Zero
    /\ frames = 0
    /\ grabs = 0
    /\ moves = 0
    /\ last = "mount"
    /\ delta = 0
    /\ resetSeen = {}
    /\ was = [i \in Items |-> "choreo"]
    /\ checked = [i \in Items |-> NewDrag]
    /\ taps = [i \in Items |-> 0]
    /\ mark = NoMark
    /\ held = {}
    /\ turned = FALSE

SInit == ShowcaseMount /\ GraphUnmounted /\ BodiesUnmounted

\* pointer-down on the hit box of item i
PointerDown(i, off) ==
    /\ grabs < MaxGrabs
    /\ LET w == VAdd(gpos[i], off)
       IN  /\ drag' = [drag EXCEPT ![i] = OnDown(@, gpos[i], w)]
           /\ ptrDown' = w
           /\ ptr' = w
    /\ listeners' = Append(listeners, i)
    /\ grabs' = grabs + 1
    /\ last' = "down"
    /\ UNCHANGED <<size, clock, returnKey, gpos, selected, frames, moves, delta, resetSeen,
                   was, checked, taps, mark, held, turned, gvars, ovars>>

\* pointermove on the canvas, adv ms after the previous pointer event: every
\* registered onMove runs (a second listener of the same item finds dt = 0)
Move(r, adv) ==
    /\ listeners # <<>>
    /\ moves' = moves + 1
    /\ LET ww == VAdd(ptrDown, r)
           b == Bounds(size)
       IN  /\ drag' = [i \in Items |->
                         IF Pairs(listeners, i) = 0 THEN drag[i]
                         ELSE OnMove(drag[i], ww, drag[i].since + adv, b)]
           /\ ptr' = ww
    /\ last' = "move"
    /\ UNCHANGED <<size, clock, returnKey, gpos, listeners, selected, ptrDown,
                   frames, grabs, delta, resetSeen, was, checked,
                   taps, mark, held, turned, gvars, ovars>>

PointerMove(r, adv) ==
    /\ moves < MaxMoves
    /\ Move(r, adv)

\* pointerup on the canvas: every registered onUp runs and removes its pair
PointerUp ==
    /\ listeners # <<>>
    /\ LET end == ptr
       IN  /\ drag' = [i \in Items |->
                         IF Pairs(listeners, i) = 0 THEN drag[i] ELSE OnUp(drag[i], end)]
           /\ taps' = [i \in Items |->
                         IF UpBranch(drag[i], end) = "tap" THEN Pairs(listeners, i) ELSE 0]
           /\ selected' = IF LastTap(listeners, drag, end) # 0
                          THEN LastTap(listeners, drag, end) ELSE selected
    /\ listeners' = <<>>
    /\ last' = "up"
    /\ UNCHANGED <<size, clock, returnKey, gpos, ptrDown, ptr, frames, grabs, moves,
                   delta, resetSeen, was, checked, mark, held, turned, gvars, ovars>>

\* handleReset
Reset ==
    /\ returnKey < MaxResets
    /\ returnKey' = returnKey + 1
    /\ last' = "reset"
    /\ UNCHANGED <<size, clock, drag, gpos, listeners, selected, ptrDown, ptr,
                   frames, grabs, moves, delta, resetSeen, was, checked,
                   taps, mark, held, turned, gvars, ovars>>

\* one rendered frame of duration dl: the five useFrame callbacks
Step(dl) ==
    /\ clock' = (clock + dl) % ClockPeriod
    /\ LET b == Bounds(size)
           f == [i \in Items |-> FrameItem(i, drag[i], returnKey, clock', dl, b)]
       IN  /\ drag' = [i \in Items |-> f[i].d]
           /\ gpos' = [i \in Items |-> f[i].g]
    /\ resetSeen' = {i \in Items : drag[i].prevRKey # returnKey}
    /\ was' = [i \in Items |-> drag[i].mode]
    /\ checked' = [i \in Items |-> CheckReturn(drag[i], returnKey)]
    /\ delta' = dl
    /\ last' = "frame"
    /\ UNCHANGED <<size, returnKey, listeners, selected, ptrDown, ptr, grabs, moves, taps,
                   gvars, ovars>>

Frame(dl) ==
    /\ frames < MaxFrames
    /\ frames' = frames + 1
    /\ Step(dl)
    /\ UNCHANGED <<mark, held, turned>>

SNext ==
    \/ \E i \in Items, off \in HitOffsets : PointerDown(i, off)
    \/ \E r \in RelMoves, adv \in Advances : PointerMove(r, adv)
    \/ PointerUp
    \/ Reset
    \/ \E dl \in Deltas : Frame(dl)

Spec == SInit /\ [][SNext]_vars

\* ------------------------------------------------- properties of the showcase

\* items with a registered listener pair that are grabbed
Released == {i \in Items : Pairs(listeners, i) > 0 /\ drag[i].mode = "grabbed"}

\* squared distance between the release point and the grab-start point
TravelSq(i) == LenSq(VSub(ptr, drag[i].grabStart))

\* C1: at pointer-up, a grabbed item whose release point is less than 0.2 from
\* its grab-start point has onTap invoked and becomes Returning, never Thrown,
\* whatever its estimated velocity is.
TapSelects ==
    [][PointerUp =>
         \A i \in Released :
            TravelSq(i) < TapTravel * TapTravel =>
               /\ taps'[i] >= 1
               /\ drag'[i].mode = "returning"]_vars

\* a tap released while the estimated speed is above the throw threshold
FastTap ==
    /\ last = "up"
    /\ \E i \in Items :
          /\ taps[i] >= 1
          /\ drag[i].mode = "returning"
          /\ LenSq(drag[i].vel) > ThrowSpeed * ThrowSpeed
          /\ LenSq(VSub(ptr, drag[i].grabStart)) < TapTravel * TapTravel

\* C2: at pointer-up, a grabbed item whose travel is at least 0.2 becomes Thrown
\* if and only if its estimated speed exceeds 0.9 and Returning otherwise, and
\* onTap is not invoked for it.
DragThrowsOrReturns ==
    [][PointerUp =>
         \A i \in Released :
            TravelSq(i) >= TapTravel * TapTravel =>
               /\ drag'[i].mode \in {"thrown", "returning"}
               /\ (drag'[i].mode = "thrown") <=> (Length(drag[i].vel) > ThrowSpeed)
               /\ taps'[i] = 0
               /\ selected' = i => selected = i]_vars

\* a drag released fast enough: thrown, nothing selected
ThrownByRelease ==
    /\ last = "up"
    /\ \E i \in Items :
          /\ drag[i].mode = "thrown"
          /\ taps[i] = 0
          /\ selected # i
          /\ LenSq(VSub(ptr, drag[i].grabStart)) >= TapTravel * TapTravel

\* C7: in the first frame after returnKey changed, checkReturn puts every one of
\* the five items into Returning with zero velocity, whatever mode it was in;
\* the frame leaves it Returning or, when it is already at its target,
\* Choreographed, still with zero velocity.
ResetReturnsAll ==
    [][/\ Reset => \A i \in Items : drag'[i].prevRKey # returnKey'
       /\ (last' = "frame" /\ \E i \in Items : drag[i].prevRKey # returnKey) =>
             \A i \in Items :
                /\ i \in resetSeen'
                /\ checked'[i].mode = "returning"
                /\ checked'[i].vel = Zero
                /\ drag'[i].mode \in {"returning", "choreo"}
                /\ drag'[i].vel = Zero
                /\ drag'[i].prevRKey = returnKey']_vars

\* a frame after a reset that found one item Thrown and another Grabbed
ResetFromThrownAndGrabbed ==
    /\ last = "frame"
    /\ resetSeen = Items
    /\ \E i, j \in Items : was[i] = "thrown" /\ was[j] = "grabbed"
    /\ \A i \in Items : checked[i].mode = "returning" /\ checked[i].vel = Zero

\* items that the frame now starting will integrate as Thrown
Flying == {i \in Items : drag[i].mode = "thrown" /\ drag[i].prevRKey = returnKey}

\* the damped velocity and the integrated position of a Thrown frame of dl ms
Damped(i, dl) == Scale(drag[i].vel, Max(0, 1000 - (22 * dl) \div 10))

Integrated(i, dl) == Advance(drag[i].pos, Damped(i, dl), dl)

\* what C8 demands of one coordinate: damped velocity v, integrated position p
BouncedOff(v, p, lo, hi, vNew, pNew) ==
    /\ p > hi => vNew = TDiv(-55 * v, 100) /\ vNew * v <= 0 /\ pNew = hi
    /\ p < lo => vNew = TDiv(-55 * v, 100) /\ vNew * v <= 0 /\ pNew = lo
    /\ lo <= pNew /\ pNew <= hi

\* C8: in a Thrown frame whose integrated x (y) falls outside the bounds, that
\* velocity component is flipped and multiplied by 0.55 and that position
\* component is put exactly on the crossed boundary; after every Thrown frame
\* the position is within the bounds.
ThrownBounces ==
    [][last' = "frame" =>
         \A i \in Flying :
            LET b == Bounds(size)
                v == Damped(i, delta')
                p == Integrated(i, delta')
            IN  /\ BouncedOff(v.x, p.x, b.minX, b.maxX, drag'[i].vel.x, drag'[i].pos.x)
                /\ BouncedOff(v.y, p.y, b.minY, b.maxY, drag'[i].vel.y, drag'[i].pos.y)
                /\ gpos'[i] = drag'[i].pos]_vars

\* an item thrown upwards has bounced off the top bound
BouncedOffTop ==
    /\ last = "frame"
    /\ \E i \in Items :
          /\ was[i] = "thrown"
          /\ i \notin resetSeen
          /\ drag[i].pos.y = Bounds(size).maxY
          /\ drag[i].vel.y < 0

\* C9: in a Thrown frame of duration delta without a boundary hit the velocity
\* becomes V * max(0, 1 - 2.2 delta), which neither reverses nor grows it, and
\* the position advances by that damped velocity times delta.
ThrownDamps ==
    [][last' = "frame" =>
         \A i \in Flying :
            LET b == Bounds(size)
                k == Max(0, 1000 - (22 * delta') \div 10)
                V == drag[i].vel
                p == Integrated(i, delta')
                W == drag'[i].vel
            IN  (b.minX <= p.x /\ p.x <= b.maxX /\ b.minY <= p.y /\ p.y <= b.maxY) =>
                   /\ W = Vec(TDiv(V.x * k, 1000), TDiv(V.y * k, 1000))
                   /\ W.x * V.x >= 0 /\ W.y * V.y >= 0
                   /\ Abs(W.x) <= Abs(V.x) /\ Abs(W.y) <= Abs(V.y)
                   /\ drag'[i].pos = Vec(drag[i].pos.x + TDiv(W.x * delta', 1000),
                                         drag[i].pos.y + TDiv(W.y * delta', 1000))]_vars

\* a throw stopped dead by a long frame: the damping factor was floored at zero
StoppedByLongFrame ==
    /\ last = "frame"
    /\ delta > 454
    /\ \E i \in Items :
          /\ was[i] = "thrown"
          /\ i \notin resetSeen
          /\ drag[i].vel = Zero
          /\ drag[i].mode = "returning"

\* ---------------------------------------------- the frame loop, unbounded
\* The render loop draws a frame of nominal duration again and again.  All
\* input falls before the third frame: at most one press, on the aircraft, a
\* pointer-move of 0.25 that arrives too soon after it to be sampled (so the
\* release velocity is zero), and the release.

InWindow == frames < MaxFrames

LiveDown(off) == frames = 1 /\ grabs = 0 /\ PointerDown(Iata, off)

LiveMove == InWindow /\ PointerMove(Vec(250, 0), 4)

LiveUp == InWindow /\ PointerUp

\* the elapsed time at which the frame loop is marked, after every transient
MarkClock == 200 * NominalDelta

\* a frame of the loop; the frame that ends at MarkClock is marked (once), and
\* from then on the items that never left Returning are tracked
LiveFrame ==
    /\ frames' = Min(frames + 1, MaxFrames)
    /\ Step(NominalDelta)
    /\ IF mark = NoMark /\ clock' = MarkClock
       THEN /\ mark' = [at |-> clock', d |-> drag', g |-> gpos']
            /\ held' = {i \in Items : drag'[i].mode = "returning"}
            /\ turned' = FALSE
       ELSE /\ mark' = mark
            /\ held' = {i \in held : drag'[i].mode = "returning"}
            /\ turned' = (mark # NoMark)

LNext ==
    \/ \E off \in HitOffsets : LiveDown(off)
    \/ LiveMove
    \/ LiveUp
    \/ LiveFrame

SpecLive == SInit /\ [][LNext]_vars /\ WF_vars(LiveFrame)

\* the frame loop is back in the marked state: from here it repeats for ever
Recurs == turned /\ mark = [at |-> clock, d |-> drag, g |-> gpos]

\* C3: every item in Returning eventually reaches Choreographed when no input
\* arrives.  After the input window the frame loop is deterministic, so this
\* says that the loop never comes back to a state it has been in with an item
\* that was Returning all the way round.
EveryItemReturns == ~(Recurs /\ held # {})

\* ====================================================== the knowledge graph
\* GraphDemo.tsx: a force-directed graph of projects and their skill tags.
\* Positions, velocities and forces are in 1/100 px; distances are taken in
\* 1/10 px so that their squares stay within the integers.

NumProjects == 5

NumSkills == 13

NumNodes == NumProjects + NumSkills

\* NODES: the projects first, then the distinct tags in order of appearance
Nodes == 1 .. NumNodes

Projects == 1 .. NumProjects

Skills == (NumProjects + 1) .. NumNodes

\* the tags of each project, as indices into NODES
Tags ==
    << <<6, 7, 8>>,      \* just-intelligence
       <<9, 10, 8>>,     \* just-wordpress
       <<11, 12, 13>>,   \* netflix-disney
       <<14, 15, 16>>,   \* iata
       <<15, 17, 18>> >> \* storycorps

NumEdges == 15

\* EDGES: one per (project, tag), in the order flatMap produces them
EDGES == [k \in 1 .. NumEdges |->
            LET p == ((k - 1) \div 3) + 1
                t == ((k - 1) % 3) + 1
            IN  [si |-> p, ti |-> Tags[p][t]]]

\* SKILL_TO_PROJECTS.get(s), the empty set when the map has no entry
SKILL_TO_PROJECTS(s) == {EDGES[k].si : k \in {j \in 1 .. NumEdges : EDGES[j].ti = s}}

REPEL == 4800

\* SPRING_K * 1000
SPRING_K == 32

REST_LEN == 160

\* GRAVITY * 1000
GRAVITY == 26

\* DAMPING * 100
DAMPING == 87

VMAX == 9

PAD == 70

\* px to 1/100 px
Px == 100

\* initPhysics(w, h): node n on its ring around the centre
InitPhysics(w, h) ==
    [n \in Nodes |->
       LET cx == (w * Px) \div 2
           cy == (h * Px) \div 2
           m  == Min(w, h)
           a  == IF n \in Projects
                 THEN (((n - 1) * TwoPiMilli) \div NumProjects
                        + TwoPiMilli - PiMilli \div 2) % TwoPiMilli
                 ELSE ((n - NumProjects - 1) * TwoPiMilli) \div NumSkills
           r  == IF n \in Projects THEN m * 17 ELSE m * 36
       IN  [x |-> cx + TDiv(Cos(a) * r, 1000), y |-> cy + TDiv(Sin(a) * r, 1000),
            vx |-> 0, vy |-> 0, pinned |-> FALSE]]

\* a difference of two coordinates, in 1/10 px
Deci(a) == TDiv(a, 10)

\* u * f / 1000 for |u| <= 1000, without leaving the integers
Mul(u, f) == IF f > 2000000 THEN u * (f \div 1000) ELSE TDiv(u * f, 1000)

\* the repulsion that node b exerts on node a
Repulsion(a, b) ==
    LET dx == Deci(b.x - a.x)
        dy == Deci(b.y - a.y)
        d2 == dx * dx + dy * dy + 1
        d  == ISqrt(d2)
        f  == (REPEL * Px * Px) \div d2
    IN  Vec(-Mul(TDiv(dx * 1000, d), f), -Mul(TDiv(dy * 1000, d), f))

\* (nx, ny) of the spring along edge e, as applied to its project end
Spring(e, ph, hov) ==
    LET dx   == Deci(ph[e.ti].x - ph[e.si].x)
        dy   == Deci(ph[e.ti].y - ph[e.si].y)
        d    == ISqrt(dx * dx + dy * dy)
        rest == IF hov # 0 /\ e.ti = hov THEN REST_LEN * 44 ELSE REST_LEN * Px
        f    == TDiv(SPRING_K * (d * 10 + 1 - rest), 1000)
    IN  IF d = 0 THEN Zero ELSE Vec(TDiv(dx * f, d), TDiv(dy * f, d))

RECURSIVE SumX(_, _)
SumX(f, k) == IF k = 0 THEN 0 ELSE f[k].x + SumX(f, k - 1)

RECURSIVE SumY(_, _)
SumY(f, k) == IF k = 0 THEN 0 ELSE f[k].y + SumY(f, k - 1)

\* fx[n], fy[n] after the three force loops of tick
Force(ph, n, hov, w, h) ==
    LET cx == (w * Px) \div 2
        cy == (h * Px) \div 2
        g  == Vec(TDiv((cx - ph[n].x) * GRAVITY, 1000), TDiv((cy - ph[n].y) * GRAVITY, 1000))
        r  == [m \in Nodes |-> IF m = n THEN Zero ELSE Repulsion(ph[n], ph[m])]
        s  == [k \in 1 .. NumEdges |->
                 IF EDGES[k].si = n THEN Spring(EDGES[k], ph, hov)
                 ELSE IF EDGES[k].ti = n
                      THEN LET v == Spring(EDGES[k], ph, hov) IN Vec(-v.x, -v.y)
                      ELSE Zero]
    IN  Vec(g.x + SumX(r, NumNodes) + SumX(s, NumEdges),
            g.y + SumY(r, NumNodes) + SumY(s, NumEdges))

\* the damped velocity without the cut at VMAX
SpeedUncut(v, f) == TDiv(Clamp(v + f, -2 * VMAX * Px, 2 * VMAX * Px) * DAMPING, 100)

\* Math.max(-VMAX, Math.min(VMAX, (v + f) * DAMPING)); v + f is first brought
\* into a range that the multiplication cannot leave and the clamp cuts anyway
Speed(v, f) ==
    Clamp(TDiv(Clamp(v + f, -2 * VMAX * Px, 2 * VMAX * Px) * DAMPING, 100),
          -VMAX * Px, VMAX * Px)

\* the boundary bounce reversing the velocity but leaving the position alone
SoftBounceUnclamped(p, v, len) ==
    IF p < PAD * Px \/ p > (len - PAD) * Px
    THEN [p |-> p, v |-> TDiv(v * (-3), 10)]
    ELSE [p |-> p, v |-> v]

\* the soft boundary bounce on one axis: position p, velocity v, extent len px
SoftBounce(p, v, len) ==
    LET lo == PAD * Px
        hi == (len - PAD) * Px
        p1 == IF p < lo THEN lo ELSE p
        v1 == IF p < lo THEN TDiv(v * (-3), 10) ELSE v
    IN  IF p1 > hi THEN [p |-> hi, v |-> TDiv(v1 * (-3), 10)] ELSE [p |-> p1, v |-> v1]

\* an integration loop in which a pinned node keeps gathering velocity
IntegrateGathers(ph, n, hov, w, h, drag0, mouse) ==
    LET f  == Force(ph, n, hov, w, h)
        vx == Speed(ph[n].vx, f.x)
        vy == Speed(ph[n].vy, f.y)
        bx == SoftBounce(ph[n].x + vx, vx, w)
        by == SoftBounce(ph[n].y + vy, vy, h)
    IN  IF ph[n].pinned
        THEN IF drag0 = n
             THEN [ph[n] EXCEPT !.x = mouse.x * Px, !.y = mouse.y * Px, !.vx = vx, !.vy = vy]
             ELSE [ph[n] EXCEPT !.vx = vx, !.vy = vy]
        ELSE [x |-> bx.p, y |-> by.p, vx |-> bx.v, vy |-> by.v, pinned |-> FALSE]

\* the integration loop of tick for node n
Integrate(ph, n, hov, w, h, drag0, mouse) ==
    IF ph[n].pinned
    THEN IF drag0 = n
         THEN [ph[n] EXCEPT !.x = mouse.x * Px, !.y = mouse.y * Px]
         ELSE ph[n]
    ELSE LET f  == Force(ph, n, hov, w, h)
             vx == Speed(ph[n].vx, f.x)
             vy == Speed(ph[n].vy, f.y)
             bx == SoftBounce(ph[n].x + vx, vx, w)
             by == SoftBounce(ph[n].y + vy, vy, h)
         IN  [x |-> bx.p, y |-> by.p, vx |-> bx.v, vy |-> by.v, pinned |-> FALSE]

\* Math.round of a coordinate in 1/100 px
Round(c) == (c + 50) \div Px

\* style.opacity of edge k for the hovered node hov
EdgeOpacity(k, hov) ==
    IF hov # 0 THEN (IF EDGES[k].ti = hov THEN "0.85" ELSE "0.03") ELSE "0.22"

\* node opacity that keeps only the hovered node bright
NodeOpacityHoveredOnly(n, hov) ==
    IF hov # 0 THEN (IF n = hov THEN "1" ELSE "0.1") ELSE "1"

\* style.opacity of node n for the hovered node hov
NodeOpacity(n, hov) ==
    IF hov # 0 THEN (IF n = hov \/ n \in SKILL_TO_PROJECTS(hov) THEN "1" ELSE "0.1") ELSE "1"

\* whether local point c lies on the shape of node n drawn at at
Covers(n, at, c) ==
    IF n \in Projects
    THEN Abs(c.x - at.x) <= 56 /\ Abs(c.y - at.y) <= 22
    ELSE (c.x - at.x) * (c.x - at.x) + (c.y - at.y) * (c.y - at.y) <= 25 * 25

\* the node that receives a mouse event at client point c: the one painted
\* last among those whose shape covers the point (0: none)
HitNode(c) ==
    LET l  == VSub(c, rect)
        on == {n \in Nodes : Covers(n, nodeAt[n], l)}
    IN  IF on = {} THEN 0 ELSE CHOOSE n \in on : \A m \in on : m <= n

\* ------------------------------------------------------------------- bounds

MaxTicks == 2

MaxInputs == 4

\* the container's size when GraphDemo mounts
MountSize == [w |-> 1280, h |-> 800]

\* what el.offsetWidth / el.offsetHeight report at a resize
ResizeTo == {[w |-> 900, h |-> 600], [w |-> 100, h |-> 600]}

\* left/top of the svg in the viewport: page at rest, page scrolled
Origins == {Vec(0, 0), Vec(0, -40)}

\* the nodes the mouse visits
Visited == {1, 8}

\* where the mouse stops (local px): over each visited node's ring position,
\* and near the top left corner
Stops ==
    {Vec(Round(InitPhysics(MountSize.w, MountSize.h)[n].x),
         Round(InitPhysics(MountSize.w, MountSize.h)[n].y)) : n \in Visited}
    \cup {Vec(10, 10)}

\* where the mouse rests when the page loads (local px): over node 8
Rest == Vec(Round(InitPhysics(MountSize.w, MountSize.h)[8].x),
            Round(InitPhysics(MountSize.w, MountSize.h)[8].y))

\* ---------------------------------------------------------------- operations

\* the first effect of GraphDemo; no element has been written to yet
GraphMountAt(sz, o) ==
    /\ phys = InitPhysics(sz.w, sz.h)
    /\ hovered = 0
    /\ mouseRef = Zero
    /\ dragIdx = 0
    /\ sizeRef = sz
    /\ rect = o
    /\ cursor = VAdd(Rest, o)
    /\ nodeAt = [n \in Nodes |-> Zero]
    /\ nodeOpacity = [n \in Nodes |-> ""]
    /\ edgeOpacity = [k \in 1 .. NumEdges |-> ""]
    /\ ticks = 0
    /\ inputs = 0
    /\ glast = "mount"
    /\ mounted = TRUE
    /\ raf = 1
    /\ pending = {1}

GraphMount(o) == GraphMountAt(MountSize, o)

GInit == ShowcaseMount /\ BodiesUnmounted /\ \E o \in Origins : GraphMount(o)

\* the order in which the integration loop of tick visits the nodes
Ascending == [k \in Nodes |-> k]

\* force buffers filled while the integration loop is already moving nodes
BufferedLate(start, now) == now

\* the positions fx and fy were accumulated from, for a node integrated when
\* the array has become now: the three force loops end before the integration
\* loop begins, so they are those of the start of the tick
Buffered(start, now) == start

\* physRef.current after the integration loop has visited order[1 .. k]
RECURSIVE IntegrateInOrder(_, _, _, _, _, _, _, _)
IntegrateInOrder(start, order, k, hov, w, h, drag0, mouse) ==
    IF k = 0
    THEN start
    ELSE LET now == IntegrateInOrder(start, order, k - 1, hov, w, h, drag0, mouse)
             n   == order[k]
             ph  == [Buffered(start, now) EXCEPT ![n] = now[n]]
         IN  [now EXCEPT ![n] = Integrate(ph, n, hov, w, h, drag0, mouse)]

\* a tick that requests the next frame without keeping its id
RafAfterTickStale(old, id) == old

\* DOM writes that store the rounded coordinates back
DomWritesRound(ph) ==
    [n \in DOMAIN ph |-> [ph[n] EXCEPT !.x = Round(ph[n].x) * Px, !.y = Round(ph[n].y) * Px]]

\* physRef.current after the DOM writes of tick, ph being what the integration
\* loop left: the writes go to the elements only
DomWrites(ph) == ph

\* the value the tick leaves in raf when its last statement requests frame id
RafAfterTick(old, id) == id

\* tick, run by the browser for the pending frame request id: forces,
\* integration, DOM writes, and the request of the next frame
RunTick(id) ==
    /\ id \in pending
    /\ raf' = RafAfterTick(raf, id + 1)
    /\ pending' = (pending \ {id}) \cup {id + 1}
    /\ phys' = DomWrites(IntegrateInOrder(phys, Ascending, NumNodes, hovered, sizeRef.w,
                                           sizeRef.h, dragIdx, mouseRef))
    /\ nodeAt' = [n \in Nodes |-> Vec(Round(phys'[n].x), Round(phys'[n].y))]
    /\ nodeOpacity' = [n \in Nodes |-> NodeOpacity(n, hovered)]
    /\ edgeOpacity' = [k \in 1 .. NumEdges |-> EdgeOpacity(k, hovered)]
    /\ glast' = "tick"
    /\ UNCHANGED <<hovered, mouseRef, dragIdx, sizeRef, rect, cursor, inputs, mounted, svars, ovars>>

Tick ==
    /\ ticks < MaxTicks
    /\ ticks' = ticks + 1
    /\ \E id \in pending : RunTick(id)

\* the cleanup of the first effect: cancelAnimationFrame(raf), and the resize
\* listener removed; the second effect's cleanup removes the mouse listeners
Unmount ==
    /\ mounted
    /\ mounted' = FALSE
    /\ pending' = pending \ {raf}
    /\ glast' = "unmount"
    /\ UNCHANGED <<phys, hovered, mouseRef, dragIdx, sizeRef, rect, cursor, nodeAt,
                   nodeOpacity, edgeOpacity, ticks, inputs, raf, svars, ovars>>

\* onResize
OnResize(sz) ==
    /\ mounted
    /\ inputs < MaxInputs
    /\ inputs' = inputs + 1
    /\ sizeRef' = sz
    /\ glast' = "input"
    /\ UNCHANGED <<phys, hovered, mouseRef, dragIdx, rect, cursor, nodeAt, nodeOpacity,
                   edgeOpacity, ticks, sched, svars, ovars>>

\* the window's mousemove listener, the mouse having moved to local point l
OnMouseMove(l) ==
    /\ mounted
    /\ inputs < MaxInputs
    /\ inputs' = inputs + 1
    /\ cursor' = VAdd(l, rect)
    /\ mouseRef' = Vec(cursor'.x - rect.x, cursor'.y - rect.y)
    /\ glast' = "input"
    /\ UNCHANGED <<phys, hovered, dragIdx, sizeRef, rect, nodeAt, nodeOpacity,
                   edgeOpacity, ticks, sched, svars, ovars>>

\* the window's mouseup listener
OnMouseUp ==
    /\ mounted
    /\ inputs < MaxInputs
    /\ inputs' = inputs + 1
    /\ phys' = IF dragIdx # 0 THEN [phys EXCEPT ![dragIdx].pinned = FALSE] ELSE phys
    /\ dragIdx' = 0
    /\ glast' = "up"
    /\ UNCHANGED <<hovered, mouseRef, sizeRef, rect, cursor, nodeAt, nodeOpacity,
                   edgeOpacity, ticks, sched, svars, ovars>>

\* onMouseDown of the node under the mouse
OnMouseDown ==
    /\ mounted
    /\ inputs < MaxInputs
    /\ inputs' = inputs + 1
    /\ HitNode(cursor) # 0
    /\ LET ni == HitNode(cursor)
       IN  /\ phys' = [phys EXCEPT ![ni].pinned = TRUE, ![ni].vx = 0, ![ni].vy = 0]
           /\ dragIdx' = ni
    /\ glast' = "input"
    /\ UNCHANGED <<hovered, mouseRef, sizeRef, rect, cursor, nodeAt, nodeOpacity,
                   edgeOpacity, ticks, sched, svars, ovars>>

\* onMouseEnter recording whatever node is entered
EnteredAny(hov, ni) == ni

\* hoveredRef.current after onMouseEnter of node ni
Entered(hov, ni) == IF ni \in Skills THEN ni ELSE hov

\* hoveredRef.current after onMouseLeave of node ni
Left(hov, ni) == IF ni \in Skills THEN 0 ELSE hov

\* onMouseEnter of the node the mouse has come over
OnMouseEnter ==
    /\ mounted
    /\ inputs < MaxInputs
    /\ inputs' = inputs + 1
    /\ HitNode(cursor) # 0
    /\ hovered' = Entered(hovered, HitNode(cursor))
    /\ glast' = "input"
    /\ UNCHANGED <<phys, mouseRef, dragIdx, sizeRef, rect, cursor, nodeAt, nodeOpacity,
                   edgeOpacity, ticks, sched, svars, ovars>>

\* onMouseLeave of node ni, which the mouse is no longer over
OnMouseLeave(ni) ==
    /\ mounted
    /\ inputs < MaxInputs
    /\ inputs' = inputs + 1
    /\ HitNode(cursor) # ni
    /\ hovered' = Left(hovered, ni)
    /\ glast' = "input"
    /\ UNCHANGED <<phys, mouseRef, dragIdx, sizeRef, rect, cursor, nodeAt, nodeOpacity,
                   edgeOpacity, ticks, sched, svars, ovars>>

GNext ==
    \/ Tick
    \/ \E sz \in ResizeTo : OnResize(sz)
    \/ \E l \in Stops : OnMouseMove(l)
    \/ OnMouseUp
    \/ OnMouseDown
    \/ OnMouseEnter
    \/ \E ni \in Visited : OnMouseLeave(ni)
    \/ Unmount

SpecGraph == GInit /\ [][GNext]_vars

\* --------------------------------------------------- properties of the graph

\* the mouse pointer in the svg's local coordinates, 1/100 px
Pointer == Vec((cursor.x - rect.x) * Px, (cursor.y - rect.y) * Px)

\* C4: after a pointer-down on a node and any sequence of pointer-moves (the
\* node is pinned and is the one being dragged), the node's position at the
\* end of the next tick is the pointer's position in local coordinates.
PinnedFollowsPointer ==
    (glast = "tick" /\ dragIdx # 0) =>
        /\ phys[dragIdx].x = Pointer.x
        /\ phys[dragIdx].y = Pointer.y

\* C5: after any pointer-up, whatever preceded it, no node pinned by a
\* pointer-down is still pinned.
UpUnpins == glast = "up" => \A n \in Nodes : ~phys[n].pinned

\* the projects joined to skill s by an edge
Joined(s) == {p \in Nodes : \E k \in 1 .. NumEdges : EDGES[k].si = p /\ EDGES[k].ti = s}

\* C6: at a tick with skill S hovered, an edge is emphasized iff its skill end
\* is S and is near-invisible otherwise, and a node is dimmed iff it is neither
\* S nor a project joined to S; with nothing hovered every edge and every node
\* gets the neutral rendering.
HoverRendering ==
    glast = "tick" =>
        /\ hovered # 0 =>
              /\ hovered \in Skills
              /\ \A k \in 1 .. NumEdges :
                    /\ edgeOpacity[k] = "0.85" <=> EDGES[k].ti = hovered
                    /\ edgeOpacity[k] \in {"0.85", "0.03"}
              /\ \A n \in Nodes :
                    /\ nodeOpacity[n] = "0.1" <=> (n # hovered /\ n \notin Joined(hovered))
                    /\ nodeOpacity[n] \in {"1", "0.1"}
        /\ hovered = 0 =>
              /\ \A k \in 1 .. NumEdges : edgeOpacity[k] = "0.22"
              /\ \A n \in Nodes : nodeOpacity[n] = "1"

\* a tick drawn while the skill shared by the first two projects is hovered
HoveredSharedSkill ==
    /\ glast = "tick"
    /\ hovered = 8
    /\ nodeOpacity[1] = "1" /\ nodeOpacity[2] = "1" /\ nodeOpacity[8] = "1"
    /\ nodeOpacity[3] = "0.1" /\ nodeOpacity[6] = "0.1"
    /\ Cardinality({k \in 1 .. NumEdges : edgeOpacity[k] = "0.85"}) = 2

\* node n lies inside the padded viewport rectangle
InsidePad(n) ==
    /\ PAD * Px <= phys[n].x /\ phys[n].x <= (sizeRef.w - PAD) * Px
    /\ PAD * Px <= phys[n].y /\ phys[n].y <= (sizeRef.h - PAD) * Px

\* C10: at the end of every tick every unpinned node lies inside the padded
\* viewport rectangle of the size that tick used.
UnpinnedInsidePad ==
    glast = "tick" => \A n \in Nodes : ~phys[n].pinned => InsidePad(n)

\* C10, for viewports that have a padded rectangle: the same, when the size the
\* tick used is at least 2 PAD wide and high.
UnpinnedInsidePadWhenRoomy ==
    (glast = "tick" /\ sizeRef.w >= 2 * PAD /\ sizeRef.h >= 2 * PAD) =>
        \A n \in Nodes : ~phys[n].pinned => InsidePad(n)

\* a tick after the viewport shrank has put a node onto the right-hand edge of
\* the padded rectangle
ClampedAfterShrink ==
    /\ glast = "tick"
    /\ sizeRef.w >= 2 * PAD /\ sizeRef.h >= 2 * PAD
    /\ sizeRef # MountSize
    /\ \E n \in Nodes : ~phys[n].pinned /\ phys[n].x = (sizeRef.w - PAD) * Px

\* the nodes visited from the last to the first
Descending == [k \in Nodes |-> NumNodes + 1 - k]

\* the nodes visited skills first, then projects
SkillsFirst == [k \in Nodes |-> IF k <= NumSkills THEN NumProjects + k ELSE k - NumSkills]

\* C12: the forces of a tick are accumulated from the positions at its start
\* and nothing is written until they are complete, so the state after the tick
\* is the same whatever the order in which the nodes are integrated.
OrderIndependent ==
    [][glast' = "tick" =>
         \A order \in {Descending, SkillsFirst} :
            phys' = IntegrateInOrder(phys, order, NumNodes, hovered, sizeRef.w, sizeRef.h,
                                     dragIdx, mouseRef)]_vars

\* a tick has moved free nodes while another node was held by the mouse
TickedWhileDragging ==
    /\ glast = "tick"
    /\ dragIdx # 0
    /\ phys[dragIdx].pinned
    /\ \E n \in Nodes : ~phys[n].pinned /\ (phys[n].vx # 0 \/ phys[n].vy # 0)

\* C13: after the effect cleanup has run no tick ever executes again: the frame
\* request pending at unmount is the one cancelled, so none is left, and
\* nothing the tick writes changes any more.
NoTickAfterUnmount ==
    /\ [](~mounted => pending = {})
    /\ [][~mounted => UNCHANGED <<phys, nodeAt, ticks, raf, pending>>]_vars

\* unmounted after a tick: the request cancelled was made by the tick itself
UnmountedAfterTick == ~mounted /\ glast = "unmount" /\ ticks >= 1 /\ raf = ticks + 1

\* C16: the hovered reference is always empty or the index of one skill node;
\* only a mouse-enter or mouse-leave on a skill node changes it, and entering
\* or leaving a project node leaves it unchanged.
HoveredIsSkill ==
    /\ [](hovered = 0 \/ hovered \in Skills)
    /\ [][hovered' # hovered =>
             \/ OnMouseEnter /\ HitNode(cursor) \in Skills
             \/ \E ni \in Visited \cap Skills : OnMouseLeave(ni)]_vars
    /\ [][(OnMouseEnter /\ HitNode(cursor) \in Projects) => hovered' = hovered]_vars
    /\ [][(\E ni \in Visited \cap Projects : OnMouseLeave(ni)) => hovered' = hovered]_vars

\* a skill is still hovered while the mouse is over a project node
HoveredSkillOverProject == hovered \in Skills /\ HitNode(cursor) \in Projects

\* C22: while a node is pinned no tick changes its velocity, which stays at the
\* zero set by pointer-down; its position changes only by assignment of the
\* pointer position; so at release it re-enters integration with zero velocity.
PinnedIsFrozen ==
    /\ [](\A n \in DOMAIN phys : phys[n].pinned => (phys[n].vx = 0 /\ phys[n].vy = 0))
    /\ [][\A n \in DOMAIN phys :
            (phys[n].pinned /\ phys'[n].pinned) =>
               /\ phys'[n].vx = phys[n].vx /\ phys'[n].vy = phys[n].vy
               /\ \/ phys'[n].x = phys[n].x /\ phys'[n].y = phys[n].y
                  \/ /\ glast' = "tick" /\ dragIdx = n
                     /\ phys'[n].x = mouseRef.x * Px /\ phys'[n].y = mouseRef.y * Px]_vars
    /\ [][\A n \in DOMAIN phys :
            (phys[n].pinned /\ ~phys'[n].pinned) =>
               /\ glast' = "up"
               /\ phys'[n] = [phys[n] EXCEPT !.pinned = FALSE]
               /\ phys'[n].vx = 0 /\ phys'[n].vy = 0]_vars

\* a node has been released where the mouse carried it, at rest
ReleasedAtRest ==
    /\ glast = "up"
    /\ mouseRef # Zero
    /\ \E n \in Nodes :
          /\ ~phys[n].pinned
          /\ phys[n].x = mouseRef.x * Px /\ phys[n].y = mouseRef.y * Px
          /\ phys[n].vx = 0 /\ phys[n].vy = 0

\* C23: at the end of every tick the velocity components of each unpinned node
\* lie in [-9, 9], so a tick displaces a node by at most 9 per axis before the
\* boundary clamp.
VelocityWithinVmax ==
    /\ [](glast = "tick" =>
            \A n \in Nodes :
               ~phys[n].pinned =>
                  /\ -VMAX * Px <= phys[n].vx /\ phys[n].vx <= VMAX * Px
                  /\ -VMAX * Px <= phys[n].vy /\ phys[n].vy <= VMAX * Px)
    /\ [][glast' = "tick" =>
            \A n \in Nodes :
               ~phys[n].pinned =>
                  /\ \/ Abs(phys'[n].x - phys[n].x) <= VMAX * Px
                     \/ phys'[n].x \in {PAD * Px, (sizeRef.w - PAD) * Px}
                  /\ \/ Abs(phys'[n].y - phys[n].y) <= VMAX * Px
                     \/ phys'[n].y \in {PAD * Px, (sizeRef.h - PAD) * Px}]_vars

\* a tick has moved a node at the full speed allowed
MovedAtVmax ==
    /\ glast = "tick"
    /\ \E n \in Nodes :
          /\ ~phys[n].pinned
          /\ Abs(phys[n].vx) = VMAX * Px \/ Abs(phys[n].vy) = VMAX * Px

\* C25: the write-back phase of a tick reads positions and writes no
\* simulation state; the pointer and hover handlers write only the pinned flag,
\* the drag handle, the shared pointer position, the hover reference and, on
\* pointer-down, the grabbed node's velocity reset: no handler writes a node's
\* x or y, or any state of a node other than the one grabbed.
WritersKeepApart ==
    /\ [][glast' = "tick" =>
            /\ phys' = IntegrateInOrder(phys, Ascending, NumNodes, hovered, sizeRef.w,
                                        sizeRef.h, dragIdx, mouseRef)
            /\ UNCHANGED <<hovered, mouseRef, dragIdx, sizeRef>>]_vars
    /\ [][glast' \in {"input", "up"} =>
            /\ UNCHANGED <<nodeAt, nodeOpacity, edgeOpacity, ticks>>
            /\ \A n \in Nodes :
                  /\ phys'[n].x = phys[n].x /\ phys'[n].y = phys[n].y
                  /\ phys'[n] # phys[n] =>
                        \/ /\ OnMouseDown /\ n = dragIdx'
                           /\ phys'[n] = [phys[n] EXCEPT !.pinned = TRUE, !.vx = 0, !.vy = 0]
                        \/ /\ OnMouseUp /\ n = dragIdx
                           /\ phys'[n] = [phys[n] EXCEPT !.pinned = FALSE]]_vars

\* a tick has drawn the graph while one node was dragged and a skill hovered
DrawnWhileHoveredAndDragged ==
    /\ glast = "tick"
    /\ hovered # 0
    /\ dragIdx # 0
    /\ nodeAt[dragIdx] = mouseRef
    /\ \E n \in Nodes : phys[n].x # nodeAt[n].x * Px

\* C26: in every reachable state at most one node is pinned, and a node is
\* pinned if and only if the drag handle refers to it.
PinnedIffDragged ==
    /\ Cardinality({n \in DOMAIN phys : phys[n].pinned}) <= 1
    /\ \A n \in DOMAIN phys : phys[n].pinned <=> dragIdx = n

\* ---------------------------------------------- the construction of the graph

\* projects[k].id
PROJECT_IDS == <<"just-intelligence", "just-wordpress", "netflix-disney", "iata", "storycorps">>

\* projects[k].tags
PROJECT_TAGS ==
    << <<"Product Design", "Data Visualization", "Front-End Dev">>,
       <<"Design Systems", "PHP/WordPress", "Front-End Dev">>,
       <<"Design Ops", "Typography", "Team Leadership">>,
       <<"Cross-Cultural UX", "Mobile Design", "Growth">>,
       <<"Mobile Design", "iOS & Android", "Shipped">> >>

\* projects.flatMap((p) => p.tags), over the first k projects
RECURSIVE FlatTags(_)
FlatTags(k) == IF k = 0 THEN <<>> ELSE FlatTags(k - 1) \o PROJECT_TAGS[k]

\* a list taken over as it is, repeated members included
DistinctOff(list) == list

\* Array.from(new Set(list)): the members of list, each once, in the order in
\* which they first appear
RECURSIVE Distinct(_)
Distinct(list) ==
    IF list = <<>> THEN <<>>
    ELSE LET front == Distinct(SubSeq(list, 1, Len(list) - 1))
             x     == list[Len(list)]
         IN  IF \E k \in 1 .. Len(front) : front[k] = x THEN front ELSE Append(front, x)

SKILL_IDS == Distinct(FlatTags(Len(PROJECT_TAGS)))

\* the id of the node of skill s: `skill::${s}`
SkillNodeId(s) == [prefix |-> "skill::", rest |-> s]

\* the id of the node of the project with id p
ProjectNodeId(p) == [prefix |-> "", rest |-> p]

NODES ==
    [k \in 1 .. Len(PROJECT_IDS) |-> [id |-> ProjectNodeId(PROJECT_IDS[k]), type |-> "project"]]
    \o [k \in 1 .. Len(SKILL_IDS) |-> [id |-> SkillNodeId(SKILL_IDS[k]), type |-> "skill"]]

\* NODES.findIndex((n) => n.id === id), counted from 1 (0: not found)
FindIndex(id) ==
    IF \E k \in 1 .. Len(NODES) : NODES[k].id = id
    THEN CHOOSE k \in 1 .. Len(NODES) :
            NODES[k].id = id /\ \A j \in 1 .. k - 1 : NODES[j].id # id
    ELSE 0

\* the edges of project p, before the filter
ProjectEdges(p) ==
    [t \in 1 .. Len(PROJECT_TAGS[p]) |->
        [si |-> FindIndex(ProjectNodeId(PROJECT_IDS[p])),
         ti |-> FindIndex(SkillNodeId(PROJECT_TAGS[p][t]))]]

\* the edges of the first k projects, those with an end not found left out
RECURSIVE EdgesBuilt(_)
EdgesBuilt(k) ==
    IF k = 0 THEN <<>>
    ELSE EdgesBuilt(k - 1) \o SelectSeq(ProjectEdges(k), LAMBDA e : e.si > 0 /\ e.ti > 0)

\* the distinct tags of all projects
AllTags == {PROJECT_TAGS[p][t] : p \in 1 .. Len(PROJECT_TAGS), t \in 1 .. 3}

\* the (project, tag) pairings
Pairings == {<<p, PROJECT_TAGS[p][t]>> : p \in 1 .. Len(PROJECT_TAGS), t \in 1 .. 3}

\* EDGES as the module builds it
EDGES_BUILT == EdgesBuilt(Len(PROJECT_IDS))

\* the nodes and edges as built: one node per project, one per distinct tag,
\* one edge per pairing, and the index sets the engine works with
BuiltShape ==
    /\ Len(NODES) = Len(PROJECT_IDS) + Cardinality(AllTags)
    /\ \A p \in 1 .. Len(PROJECT_IDS) :
          Cardinality({n \in 1 .. Len(NODES) :
                          NODES[n] = [id |-> ProjectNodeId(PROJECT_IDS[p]), type |-> "project"]}) = 1
    /\ \A tag \in AllTags :
          Cardinality({n \in 1 .. Len(NODES) :
                          NODES[n] = [id |-> SkillNodeId(tag), type |-> "skill"]}) = 1
    /\ Len(EDGES_BUILT) = Cardinality(Pairings)
    /\ \A pt \in Pairings :
          Cardinality({k \in 1 .. Len(EDGES_BUILT) :
                          /\ EDGES_BUILT[k].si = pt[1]
                          /\ NODES[EDGES_BUILT[k].si].id = ProjectNodeId(PROJECT_IDS[pt[1]])
                          /\ NODES[EDGES_BUILT[k].ti] = [id |-> SkillNodeId(pt[2]), type |-> "skill"]}) = 1
    /\ EDGES = EDGES_BUILT
    /\ Nodes = 1 .. Len(NODES)
    /\ Projects = {n \in 1 .. Len(NODES) : NODES[n].type = "project"}
    /\ Skills = {n \in 1 .. Len(NODES) : NODES[n].type = "skill"}

\* C24: there is exactly one node per project and one per distinct tag,
\* exactly one edge per (project, tag) pairing, from the project's node to the
\* tag's skill node, and the physical-state array is as long as the node array
\* and aligned with it; none of this changes under ticks and pointer events.
GraphShape ==
    /\ BuiltShape
    /\ DOMAIN phys = 1 .. Len(NODES)
    /\ DOMAIN nodeAt = 1 .. Len(NODES)
    /\ \A n \in DOMAIN phys : DOMAIN phys[n] = {"x", "y", "vx", "vy", "pinned"}

\* every tick and every event allowed has happened, a drag among them
AllEventsDone ==
    /\ ticks = MaxTicks
    /\ inputs = MaxInputs
    /\ glast = "up"
    /\ Len(phys) = Len(NODES)
    /\ \E n \in Nodes : phys[n] # InitPhysics(sizeRef.w, sizeRef.h)[n]

\* ------------------------------------------------ the graph left to itself
\* GraphDemo mounted in a container of some size and never touched: the tick
\* loop runs on its own.

\* the number of ticks after which the graph is expected to have settled
SettleTicks == 500

\* the ticks run in all
MaxSettle == 600

\* container sizes at mount: a desktop window and two phone screens
SettleSizes == {[w |-> 1280, h |-> 800], [w |-> 360, h |-> 640], [w |-> 320, h |-> 568]}

SettleInit == ShowcaseMount /\ BodiesUnmounted /\ \E sz \in SettleSizes : GraphMountAt(sz, Zero)

SettleTick ==
    /\ ticks < MaxSettle
    /\ ticks' = ticks + 1
    /\ \E id \in pending : RunTick(id)

SettleNext == SettleTick

SpecSettle == SettleInit /\ [][SettleNext]_vars

\* the largest velocity component of any node, 1/100 px per tick
TopSpeed == CHOOSE v \in {Max(Abs(phys[n].vx), Abs(phys[n].vy)) : n \in Nodes} :
                \A n \in Nodes : Abs(phys[n].vx) <= v /\ Abs(phys[n].vy) <= v

\* a small velocity, 1/100 px per tick
Epsilon == 10

\* C11: with no pointer interaction, from the ring layout, after 500 ticks
\* every node's velocity is below a small epsilon and stays below it.
SettlesDown == ticks >= SettleTicks => TopSpeed < Epsilon

\* ------------------------------------------------------ the rigid-body items
\* PhysicsObject.tsx: an item carried by a rigid body of the physics engine,
\* dragged kinematically while a pointer holds it.  The motion the engine
\* gives a free body is not part of this model.

\* the bodies mounted
Bodies == {1, 2}

MaxBodyEvents == 5

\* world points (1/1000) a pointer can be at on the drag plane
BodyPoints == {Vec(0, 0), Vec(400, 300)}

\* item.initialPosition of body o
InitialPosition(o) == IF o = 1 THEN Vec(-2500, 9000) ELSE Vec(-600, 11000)

\* item.initialLinvel of body o
InitialLinvel(o) == IF o = 1 THEN Vec(1800, 5000) ELSE Vec(-2000, 3000)

\* the refs of a freshly mounted PhysicsObject and its RigidBody
NewBody(o) ==
    [isDragging |-> FALSE, kinematic |-> FALSE, translation |-> InitialPosition(o),
     prevDragPos |-> Zero, dragVelocity |-> Zero, pointer |-> Zero,
     linvel |-> InitialLinvel(o), angvel |-> Zero]

\* handlePointerDown, the pointer at world point w of the body's plane
HandlePointerDown(b, w) ==
    [b EXCEPT !.isDragging = TRUE,
              !.prevDragPos = b.translation,
              !.dragVelocity = Zero,
              !.pointer = w,
              !.kinematic = TRUE]

\* one onMove listener of PhysicsObject
BodyOnMove(b, w) == [b EXCEPT !.pointer = w]

\* whether one onUp listener of PhysicsObject gets as far as removing its pair
BodyOnUpRemoves(b) == b.isDragging

\* one onUp listener of PhysicsObject: the refs and the rigid body it leaves
BodyOnUp(b) ==
    IF ~b.isDragging THEN b
    ELSE [b EXCEPT !.isDragging = FALSE,
                   !.kinematic = FALSE,
                   !.linvel = Vec(TDiv(b.dragVelocity.x * 4, 10), TDiv(b.dragVelocity.y * 4, 10)),
                   !.angvel = Vec(TDiv(b.dragVelocity.y * 3, 10), -TDiv(b.dragVelocity.x * 3, 10))]

\* the canvas dispatching pointerup to the onUp listeners ls[1 .. k] in the
\* order they were registered: the bodies (.b) and the pairs still registered
\* (.ls) afterwards
RECURSIVE DispatchUp(_, _, _)
DispatchUp(bs, ls, k) ==
    IF k = 0
    THEN [b |-> bs, ls |-> <<>>]
    ELSE LET r == DispatchUp(bs, ls, k - 1)
             o == ls[k]
         IN  [b  |-> [r.b EXCEPT ![o] = BodyOnUp(@)],
              ls |-> IF BodyOnUpRemoves(r.b[o]) THEN r.ls ELSE Append(r.ls, o)]

\* the drag part of the useFrame callback, frame duration dl ms
BodyFrameItem(b, dl) ==
    IF ~b.isDragging THEN b
    ELSE LET hit == b.pointer
         IN  [b EXCEPT !.dragVelocity = Vec(TDiv((hit.x - b.prevDragPos.x) * 1000, Max(dl, 1)),
                                            TDiv((hit.y - b.prevDragPos.y) * 1000, Max(dl, 1))),
                       !.prevDragPos = hit,
                       !.translation = hit]

BodiesMount ==
    /\ body = [o \in Bodies |-> NewBody(o)]
    /\ canvasPairs = <<>>
    /\ bevents = 0
    /\ blast = "mount"

BInit == ShowcaseMount /\ GraphUnmounted /\ BodiesMount

\* pointer-down on the bounding mesh of body o
BodyPointerDown(o, w) ==
    /\ bevents < MaxBodyEvents
    /\ bevents' = bevents + 1
    /\ body' = [body EXCEPT ![o] = HandlePointerDown(@, w)]
    /\ canvasPairs' = Append(canvasPairs, o)
    /\ blast' = "down"
    /\ UNCHANGED <<svars, gvars>>

\* pointermove on the canvas: every registered onMove runs
BodyPointerMove(w) ==
    /\ bevents < MaxBodyEvents
    /\ bevents' = bevents + 1
    /\ body' = [o \in Bodies |->
                  IF \E k \in 1 .. Len(canvasPairs) : canvasPairs[k] = o
                  THEN BodyOnMove(body[o], w) ELSE body[o]]
    /\ blast' = "move"
    /\ UNCHANGED <<canvasPairs, svars, gvars>>

\* pointerup on the canvas: every registered onUp runs
BodyPointerUp ==
    /\ bevents < MaxBodyEvents
    /\ bevents' = bevents + 1
    /\ LET r == DispatchUp(body, canvasPairs, Len(canvasPairs))
       IN  /\ body' = r.b
           /\ canvasPairs' = r.ls
    /\ blast' = "up"
    /\ UNCHANGED <<svars, gvars>>

\* one rendered frame: the useFrame callback of every body
BodyFrame(dl) ==
    /\ bevents < MaxBodyEvents
    /\ bevents' = bevents + 1
    /\ body' = [o \in Bodies |-> BodyFrameItem(body[o], dl)]
    /\ blast' = "frame"
    /\ UNCHANGED <<canvasPairs, svars, gvars>>

BNext ==
    \/ \E o \in Bodies, w \in BodyPoints : BodyPointerDown(o, w)
    \/ \E w \in BodyPoints : BodyPointerMove(w)
    \/ BodyPointerUp
    \/ BodyFrame(NominalDelta)

SpecBodies == BInit /\ [][BNext]_vars

\* C14: the pointermove/pointerup listeners an item registers on the canvas at
\* pointer-down are all removed when the drag ends: after any pointer-up no
\* drag listener of any item remains registered.
NoDragListenerAfterUp == blast = "up" => canvasPairs = <<>>

\* the same for the items of SandboxCanvas
NoShowcaseListenerAfterUp == last = "up" => listeners = <<>>

\* ------------------------------------------------ the graph in a tiny window
\* GraphDemo while the window is made tiny and large again, the mouse away.

MaxSqueezeTicks == 4

\* what el.offsetWidth / el.offsetHeight report at a resize: a window smaller
\* than 2 PAD each way, and the desktop window
SqueezeTo == {[w |-> 100, h |-> 100], [w |-> 1280, h |-> 800]}

SqueezeInit == ShowcaseMount /\ BodiesUnmounted /\ GraphMount(Zero)

SqueezeTick ==
    /\ ticks < MaxSqueezeTicks
    /\ ticks' = ticks + 1
    /\ \E id \in pending : RunTick(id)

SqueezeNext ==
    \/ SqueezeTick
    \/ \E sz \in SqueezeTo : OnResize(sz)

SpecSqueeze == SqueezeInit /\ [][SqueezeNext]_vars

\* the ticks within which coincident nodes are expected to have separated
FewTicks == 10

\* physRef.current after k more ticks with no event in between
RECURSIVE Ahead(_, _)
Ahead(ph, k) ==
    IF k = 0 THEN ph
    ELSE LET next == IntegrateInOrder(ph, Ascending, NumNodes, hovered, sizeRef.w,
                                      sizeRef.h, dragIdx, mouseRef)
         IN  IF next = ph THEN ph ELSE Ahead(next, k - 1)

\* two distinct unpinned nodes of ph at identical coordinates
Coincide(ph, a, b) ==
    /\ a # b
    /\ ~ph[a].pinned /\ ~ph[b].pinned
    /\ ph[a].x = ph[b].x /\ ph[a].y = ph[b].y

\* C15: if two unpinned nodes have identical coordinates at some tick, the
\* repulsion step raises no error and the two nodes separate: within a few
\* ticks their positions differ.  Stated for a window that has room for the
\* padded rectangle.
CoincidentNodesSeparate ==
    (sizeRef.w >= 2 * PAD /\ sizeRef.h >= 2 * PAD) =>
        \A a, b \in Nodes : Coincide(phys, a, b) => ~Coincide(Ahead(phys, FewTicks), a, b)

\* ------------------------------------------- more properties of the showcase

\* the items that drivePos found Returning in the latest frame and left
\* Choreographed
HandedOver == {i \in Items : checked[i].mode = "returning" /\ drag[i].mode = "choreo"}

\* C17: an item passes from Returning to Choreographed only in a frame in
\* which, after the ease step toward that frame's target, its distance to the
\* target is below 0.07; the stored position is then set to the target, so the
\* hand-over moves it by less than 0.07.
HandOverIsNear ==
    /\ [][\A i \in Items :
            (drag[i].mode = "returning" /\ drag'[i].mode = "choreo") => last' = "frame"]_vars
    /\ [](last = "frame" =>
            \A i \in HandedOver :
               LET t == Target(i, clock)
                   p == Lerp(checked[i].pos, t, delta)
               IN  /\ LenSq(VSub(p, t)) < ReturnNear * ReturnNear
                   /\ gpos[i] = p
                   /\ drag[i].pos = t)

\* a frame has handed an item over that was away from its target
HandedOverAfterEase ==
    /\ last = "frame"
    /\ \E i \in HandedOver : gpos[i] # drag[i].pos

\* ------------------------------------------------------------ one long drag
\* The showcase while items are grabbed and the pointer keeps moving.

MaxDragMoves == 3

\* where the pointer travels during the drag, relative to the point where it
\* went down: as before, or back to that point
DragMoves == RelMoves \cup {Zero}

DragMove(r, adv) ==
    /\ moves < MaxDragMoves
    /\ Move(r, adv)

DragDown(i, off) == frames = 1 /\ PointerDown(i, off)

DragFrame == Frame(NominalDelta)

DragNext ==
    \/ DragFrame
    \/ \E i \in {1, Iata}, off \in HitOffsets : DragDown(i, off)
    \/ \E r \in DragMoves, adv \in Advances : DragMove(r, adv)
    \/ PointerUp

SpecDrag == SInit /\ [][DragNext]_vars

\* the grabbed items whose onMove runs at a pointermove
Dragged == {i \in Items : Pairs(listeners, i) > 0 /\ drag[i].mode = "grabbed"}

\* C18: while an item is grabbed, a pointer-move takes a new velocity sample
\* only when more than 8 ms have passed since the last one (otherwise velocity
\* and sample point stay as they are), the velocity never exceeds 16, and the
\* position follows the pointer on every move.
MoveSamples ==
    [][\A r \in DragMoves, adv \in Advances :
          DragMove(r, adv) =>
             \A i \in Dragged :
                LET dt == drag[i].since + adv
                    ww == VAdd(ptrDown, r)
                    b  == Bounds(size)
                IN  /\ dt <= MinSampleMs =>
                          /\ drag'[i].vel = drag[i].vel
                          /\ drag'[i].prevWorld = drag[i].prevWorld
                    /\ dt > MinSampleMs =>
                          /\ drag'[i].prevWorld = ww
                          /\ LET raw == Vec(TDiv((ww.x - drag[i].prevWorld.x) * 1000, dt),
                                            TDiv((ww.y - drag[i].prevWorld.y) * 1000, dt))
                             IN  Length(raw) <= MaxSpeed => drag'[i].vel = raw
                    /\ Length(drag'[i].vel) <= MaxSpeed
                    /\ drag'[i].pos.x = Clamp(ww.x + drag[i].grabOffset.x, b.minX, b.maxX)
                    /\ drag'[i].pos.y = Clamp(ww.y + drag[i].grabOffset.y, b.minY, b.maxY)
                    /\ drag'[i].mode = "grabbed"]_vars

\* a move too soon after the last sample has left a capped velocity as it was
\* and moved the item
CappedThenUnsampled ==
    /\ last = "move"
    /\ \E i \in Dragged :
          /\ drag[i].since > 0
          /\ Length(drag[i].vel) * 10 > MaxSpeed * 9
          /\ drag[i].pos # VAdd(drag[i].prevWorld, drag[i].grabOffset)

\* ----------------------------------------------------------------- one throw
\* The showcase while an item is dragged once, released, and then left alone:
\* the frame loop keeps running.

MaxThrowFrames == 150

ThrowDown(i, off) == frames = 1 /\ grabs = 0 /\ PointerDown(i, off)

ThrowMove(r) == frames = 1 /\ PointerMove(r, 16)

ThrowUp == frames = 1 /\ PointerUp

\* a frame of the loop; none is drawn while the short drag lasts
ThrowFrame ==
    /\ frames < MaxThrowFrames
    /\ listeners = <<>>
    /\ frames' = frames + 1
    /\ Step(NominalDelta)
    /\ UNCHANGED <<mark, held, turned>>

ThrowNext ==
    \/ ThrowFrame
    \/ \E i \in Items, off \in HitOffsets : ThrowDown(i, off)
    \/ \E r \in RelMoves : ThrowMove(r)
    \/ ThrowUp

\* requestAnimationFrame keeps the frames coming
SpecThrow == SInit /\ [][ThrowNext]_vars /\ WF_vars(ThrowFrame)

\* the items that stepThrown moved in the latest frame
Stepped == {i \in Items : last = "frame" /\ checked[i].mode = "thrown"}

\* C19: with no pointer input a thrown item eventually becomes Returning: it
\* leaves Thrown in the first frame at whose end its speed is below 0.1, and
\* that frame comes because the speed shrinks in every frame.
ThrownComesToRest ==
    /\ \A i \in Items : (drag[i].mode = "thrown") ~> (drag[i].mode = "returning")
    /\ [](\A i \in Stepped :
            /\ drag[i].mode = "returning" <=> LenSq(drag[i].vel) < StopSpeed * StopSpeed
            /\ drag[i].mode = "thrown" <=> LenSq(drag[i].vel) >= StopSpeed * StopSpeed
            /\ LenSq(checked[i].vel) > 0 => LenSq(drag[i].vel) < LenSq(checked[i].vel))

\* a throw has come to rest after many frames
CameToRestLate ==
    /\ frames > 50
    /\ \E i \in Stepped : drag[i].mode = "returning"

\* the items that drivePos found Choreographed in the latest frame
Scripted == {i \in Items : last = "frame" /\ checked[i].mode = "choreo"}

\* C20: in every frame processed while an item is Choreographed, its rendered
\* position and its stored drag position both equal the scripted target of
\* that frame, whatever drag, throw or return came before.
ChoreoAtTarget ==
    \A i \in Scripted :
       /\ gpos[i] = Target(i, clock)
       /\ drag[i].pos = Target(i, clock)

\* an item that was dragged and released, and has returned, is Choreographed
\* again
ScriptedAfterDrag ==
    \E i \in Scripted :
       /\ drag[i].vel # Zero
       /\ drag[i].grabStart # Zero
       /\ was[i] = "choreo"

\* --------------------------------------------------- more about one long drag

\* point p lies inside the bounds b
InBounds(p, b) == b.minX <= p.x /\ p.x <= b.maxX /\ b.minY <= p.y /\ p.y <= b.maxY

\* C21: a pointer-down leaves mode Grabbed, velocity zero, grab offset = object
\* position minus pointer world point and grab start = pointer world point, all
\* in the one invocation; a following pointer-move to p puts the item at
\* p + grab offset clamped to the bounds, so a move back to the grab point
\* leaves an in-bounds item exactly where it was grabbed.
GrabKeepsOffset ==
    /\ [][\A i \in Items, off \in HitOffsets :
            DragDown(i, off) =>
               /\ drag'[i].mode = "grabbed"
               /\ drag'[i].vel = Zero
               /\ drag'[i].grabStart = VAdd(gpos[i], off)
               /\ drag'[i].grabOffset.x = gpos[i].x - drag'[i].grabStart.x
               /\ drag'[i].grabOffset.y = gpos[i].y - drag'[i].grabStart.y
               /\ \A j \in Items \ {i} : drag'[j] = drag[j]]_vars
    /\ [][\A r \in DragMoves, adv \in Advances :
            DragMove(r, adv) =>
               \A i \in Dragged :
                  LET p  == VAdd(ptrDown, r)
                      b  == Bounds(size)
                      at == VAdd(drag[i].grabStart, drag[i].grabOffset)
                  IN  /\ drag'[i].pos.x = Clamp(p.x + drag[i].grabOffset.x, b.minX, b.maxX)
                      /\ drag'[i].pos.y = Clamp(p.y + drag[i].grabOffset.y, b.minY, b.maxY)
                      /\ (p = drag[i].grabStart /\ InBounds(at, b)) => drag'[i].pos = at]_vars
    /\ [](last = "down" =>
            \A i \in Items :
               (drag[i].mode = "grabbed" /\ drag[i].grabStart = ptrDown) =>
                   gpos[i] = VAdd(drag[i].grabStart, drag[i].grabOffset))

\* the pointer has left the grab point and come back, and the item is where
\* its group was drawn when it was grabbed
BackAtGrabPoint ==
    /\ last = "move"
    /\ moves >= 2
    /\ frames = 1
    /\ \E i \in Dragged :
          /\ ptr = drag[i].grabStart
          /\ drag[i].pos = gpos[i]
          /\ drag[i].grabOffset # Zero

\* ------------------------------------------------ the modes of a showcase item

\* C27: the mode of an item changes only by: any mode -> grabbed on
\* pointer-down; grabbed -> thrown or returning on pointer-up; any mode ->
\* returning when a frame's checkReturn sees a reset; thrown -> returning and
\* returning -> choreo in the rest of a frame.
ModeTransitions ==
    [][\A i \in Items :
          /\ last' = "down" /\ drag'[i].mode # drag[i].mode => drag'[i].mode = "grabbed"
          /\ last' = "up" /\ drag'[i].mode # drag[i].mode =>
                /\ drag[i].mode = "grabbed"
                /\ drag'[i].mode \in {"thrown", "returning"}
          /\ last' \in {"move", "reset"} => drag'[i].mode = drag[i].mode
          /\ last' = "frame" =>
                /\ checked'[i].mode # drag[i].mode =>
                      i \in resetSeen' /\ checked'[i].mode = "returning"
                /\ drag'[i].mode # checked'[i].mode =>
                      <<checked'[i].mode, drag'[i].mode>> \in
                          {<<"thrown", "returning">>, <<"returning", "choreo">>}]_vars

\* the transitions of the mode other than those of onUp: thrown is entered
\* from grabbed only, choreo from returning only, and a frame that sees no
\* reset takes no item out of grabbed or choreo
ModeTransitionsButUp ==
    [][\A i \in Items :
          /\ drag'[i].mode = "thrown" /\ drag[i].mode # "thrown" =>
                last' = "up" /\ drag[i].mode = "grabbed"
          /\ drag'[i].mode = "choreo" /\ drag[i].mode # "choreo" =>
                last' = "frame" /\ checked'[i].mode = "returning"
          /\ last' = "frame" /\ i \notin resetSeen' /\ drag[i].mode \in {"grabbed", "choreo"} =>
                drag'[i].mode = drag[i].mode]_vars

\* C28: one pointer-up calls an item's onTap (its select callback) at most
\* once.
SelectedOncePerUp == \A i \in Items : taps[i] <= 1

\* items whose drag a reset has ended while the pointer is still down: their
\* listener pair is registered and checkReturn has taken them out of grabbed
ResetWhileHeld == {i \in Items : Pairs(listeners, i) > 0 /\ drag[i].mode # "grabbed"}

\* C29: a reset processed while an item is grabbed leaves it returning with
\* zero velocity; the later pointer-moves of that drag change neither its
\* position nor its velocity, and the pointer-up does not leave it thrown.
ResetEndsDrag ==
    /\ [](\A i \in ResetWhileHeld :
             drag[i].mode \in {"returning", "choreo"} /\ drag[i].vel = Zero)
    /\ [][\A i \in Items :
             last' = "frame" /\ drag[i].mode = "grabbed" /\ i \in resetSeen' =>
                /\ checked'[i].mode = "returning" /\ checked'[i].vel = Zero
                /\ i \in ResetWhileHeld']_vars
    /\ [][\A i \in ResetWhileHeld :
             /\ last' = "move" => drag'[i].pos = drag[i].pos /\ drag'[i].vel = drag[i].vel
             /\ last' = "up" => drag'[i].mode # "thrown"]_vars

\* a pointer-up has ended a drag that a reset had ended before: the pointer
\* moved away from the grab point, and the item took no sample of the move
ReleasedAfterReset ==
    \E i \in Items :
        /\ last = "up" /\ moves > 0 /\ drag[i].prevRKey > 0
        /\ drag[i].grabStart = ptrDown /\ ptr # ptrDown
        /\ drag[i].prevWorld = drag[i].grabStart /\ drag[i].since = 0
        /\ drag[i].mode = "returning" /\ drag[i].vel = Zero

\* C30: in every reachable state, whatever its mode, the speed of an item is
\* at most 16 world units per second.
SpeedWithinCap ==
    \A i \in Items :
        /\ Abs(drag[i].vel.x) <= MaxSpeed /\ Abs(drag[i].vel.y) <= MaxSpeed
        /\ LenSq(drag[i].vel) <= MaxSpeed * MaxSpeed

\* an item thrown at the cap is still flying, slower, after a frame
ThrownAtCapDamped ==
    \E i \in Items :
        /\ last = "frame" /\ was[i] = "thrown" /\ drag[i].mode = "thrown"
        /\ LenSq(checked[i].vel) = MaxSpeed * MaxSpeed
        /\ drag[i].vel # Zero
        /\ LenSq(drag[i].vel) < MaxSpeed * MaxSpeed

====
